---- MODULE Spec2Model ----
(***************************************************************************)
(* State-machine model of PpuDevice (src/src/ppu.cpp) and of the RamDevice *)
(* and CartridgeRomDevice bus segments (src/unnamed/part_000).             *)
(*                                                                         *)
(* The chip's fields keep their source names.  The byte arrays m_vram,     *)
(* m_ppuoam and RamDevice::mem are kept as "fill + cells": the content an  *)
(* array had when it was created (a fill pattern chosen in Init) and the   *)
(* cells that differ from it.  MemWrite keeps that form canonical, so two  *)
(* arrays are equal exactly when their representations are equal.          *)
(*                                                                         *)
(* The declarations of ppu.hpp are not among the modelled sources: the     *)
(* field widths, the array sizes, the initial field values and the         *)
(* PPUCTRL_* masks are those of the chip's design description (16 KiB of   *)
(* VRAM behind a 16-bit cursor, 256 bytes of OAM, zeroed registers).       *)
(*                                                                         *)
(* The frame buffer is kept as the inputs of the passes that filled it     *)
(* (control byte, VRAM, OAM, pattern ROM); the colour of a pixel is        *)
(* computed from them by FramePixel, pass by pass and sprite by sprite in  *)
(* the order render() stores them.                                         *)
(***************************************************************************)
EXTENDS Integers, Sequences, FiniteSets, TLC

VARIABLES
    m_ppuctrl,              \* control register byte
    m_ppuaddr,              \* VRAM cursor, uint16_t
    m_ppu_reg_w,            \* address-latch write toggle: 0 expects the high byte
    m_vram,                 \* chip VRAM, VRAM_SIZE bytes
    m_ppudata_buffer,       \* read buffer of the data port
    m_ppuoam,               \* object attribute memory, OAM_SIZE bytes
    m_controller_strobe,    \* controller strobe bit
    m_controller_read_no,   \* controller read index
    m_kb_state,             \* controller state byte
    m_ntick,                \* tick counter
    m_chr_rom,              \* pattern-table ROM, CHR_SIZE bytes
    m_frame,                \* frame buffer, as the inputs of the passes that filled it
    sprite,                 \* the 8x8 array filled by the last get_sprite call
    cpu_ram,                \* the work-RAM RamDevice behind m_cpu_ram
    cart_rom,               \* a CartridgeRomDevice bus segment
    apu_log,                \* calls of m_apu->set, in order: <<addr, value>>
    cpu_nmi,                \* number of calls of m_cpu->interrupt(false)
    ram_gets,               \* number of calls of m_cpu_ram->get
    last,                   \* the last call on the chip and what it returned
    status_hi,              \* the high address byte H of a sequence "write H, status
                            \* read(s)[, address write]" that ends at the last call,
                            \* -1 if the last calls are no such sequence
    raised,                 \* the last call ended by throwing
    bus_addr,               \* the address of the last call, if on a bus segment, else -1
    frame_out,              \* a frame-buffer write has targeted a pixel outside the grid
    drawn,                  \* the OAM entries the last render passed to add_sprite
    run,                    \* returns of the controller reads made in a row
    strobe_in,              \* bit 0 of the last write to KEY_CTRL1, -1 if none
    ub,                     \* an access outside m_vram has happened
    nops,                   \* number of set/get/set_kb_state calls so far
    nticks,                 \* number of tick calls so far
    nmi_off                 \* a tick call was made with the NMI-enable bit clear

chip == <<m_ppuctrl, m_ppuaddr, m_ppu_reg_w, m_vram, m_ppudata_buffer, m_ppuoam,
          m_controller_strobe, m_controller_read_no, m_kb_state, m_ntick>>
collab == <<cpu_ram, apu_log, cpu_nmi, ram_gets>>
video == <<m_chr_rom, m_frame, sprite>>
ghost == <<last, status_hi, raised, bus_addr, frame_out, drawn, run, strobe_in, ub, nops, nticks, nmi_off>>
vars == <<chip, video, collab, cart_rom, ghost>>

----------------------------------------------------------------------------
(* Program constants *)

VRAM_SIZE == 16384
OAM_SIZE == 256
RAM_SIZE == 32768
FRAME_MOD == 89342
FRAME_HIT == 89341
PPUCTRL_VRAMINC == 4
PPUCTRL_VBLANKNMI == 128
PPUCTRL_SPRITESIZE == 32
PPUCTRL_BGPATTTABLE == 16
PPUCTRL_OAMPATTTABLE == 8
PPUOAM_ATT_HFLIP == 64
PPUOAM_ATT_VFLIP == 128
CHR_SIZE == 16384
FRAME_ROWS == 240
FRAME_COLS == 256
NAMETABLE_0 == 8192
NAMETABLE_SIZE == 1024
ATTRIBUTE_TABLE == 960
PALETTES == 16128
NES_COLORS_SIZE == 64

KEY_PPUCTRL == "KEY_PPUCTRL"
KEY_PPUMASK == "KEY_PPUMASK"
KEY_PPUSTATUS == "KEY_PPUSTATUS"
KEY_OAMADDR == "KEY_OAMADDR"
KEY_OAMDATA == "KEY_OAMDATA"
KEY_PPUSCROLL == "KEY_PPUSCROLL"
KEY_PPUADDR == "KEY_PPUADDR"
KEY_PPUDATA == "KEY_PPUDATA"
KEY_OAMDMA == "KEY_OAMDMA"
KEY_APU_STATUS == "KEY_APU_STATUS"
KEY_CTRL1 == "KEY_CTRL1"
KEY_CTRL2 == "KEY_CTRL2"
KEY_OTHER == "KEY_OTHER"

Byte == 0..255

----------------------------------------------------------------------------
(* Bounds of the model *)

MaxOps == 3
MaxTicksFull == 2
MaxAddrOps == 3
MaxVramOps == 5
MaxDmaOps == 3
MaxCtrlOps == 12
MaxRun == 9
MaxTicks == 89343
MaxTickOps == 1
MaxStatusOps == 5
MaxBusOps == 3
MaxDecodeOps == 2
MaxRenderOps == 4
MaxNmiTicks == 89343
MaxNmiOps == 3
MaxNmiLead == 2
MaxWhoOps == 3
MaxWhoTicks == 2

----------------------------------------------------------------------------
(* Integer helpers: C++ operators on unsigned values *)

RECURSIVE BitAnd(_, _)
BitAnd(a, b) ==
    IF a = 0 \/ b = 0 THEN 0
    ELSE (a % 2) * (b % 2) + 2 * BitAnd(a \div 2, b \div 2)

RECURSIVE BitOr(_, _)
BitOr(a, b) ==
    IF a = 0 THEN b
    ELSE IF b = 0 THEN a
    ELSE (IF a % 2 = 1 \/ b % 2 = 1 THEN 1 ELSE 0) + 2 * BitOr(a \div 2, b \div 2)

RECURSIVE Pow2(_)
Pow2(n) == IF n = 0 THEN 1 ELSE 2 * Pow2(n - 1)

ShiftRight(a, n) == a \div Pow2(n)

U16(x) == x % 65536

----------------------------------------------------------------------------
(* Byte arrays *)

EmptyCells == [a \in {} |-> 0]

\* What an array cell held when the array was created: zeros, 0xFF bytes, or
\* leftover bytes.
Fill(seed, a) ==
    IF seed = 0 THEN 0
    ELSE IF seed = 255 THEN 255
    ELSE (a * 7 + (a \div 256) * 3 + seed) % 256

NewMem(seed) == [fill |-> seed, cells |-> EmptyCells]

MemRead(m, a) == IF a \in DOMAIN m.cells THEN m.cells[a] ELSE Fill(m.fill, a)

MemWrite(m, a, v) ==
    IF v = Fill(m.fill, a)
    THEN [m EXCEPT !.cells = [x \in (DOMAIN m.cells) \ {a} |-> m.cells[x]]]
    ELSE [m EXCEPT !.cells = [x \in (DOMAIN m.cells) \cup {a} |->
                                 IF x = a THEN v ELSE m.cells[x]]]

----------------------------------------------------------------------------
(* RamDevice: the work-RAM bus segment *)

\* mem[addr - m_base_addr].  An offset outside 0..RAM_SIZE-1 reads whatever
\* bytes lie around the array: dev.around, chosen in Init, stands for them.
RamGet(dev, addr) ==
    IF (addr - dev.base) \in 0..(RAM_SIZE - 1)
    THEN MemRead(dev.mem, addr - dev.base)
    ELSE Fill(dev.around, addr - dev.base)

\* mem[addr - m_base_addr] = val
RamDevSet(dev, addr, val) ==
    [dev EXCEPT !.mem = MemWrite(dev.mem, addr - dev.base, val)]

----------------------------------------------------------------------------
(* CartridgeRomDevice: the program-ROM bus segment *)

ROM_SIZE == 32768

\* mem[addr - m_base_addr], as in RamDevice.
RomGet(dev, addr) ==
    IF (addr - dev.base) \in 0..(ROM_SIZE - 1)
    THEN MemRead(dev.mem, addr - dev.base)
    ELSE Fill(dev.around, addr - dev.base)

\* The store made instead of the throw.
RomDevSet_Stores(dev, addr, val) ==
    [dev EXCEPT !.mem = MemWrite(dev.mem, addr - dev.base, val)]

\* set() only throws: the device is as it was.
RomDevSet(dev, addr, val) == dev

----------------------------------------------------------------------------
(* Initial state: the chip after construction and set_cpu *)

Fills == {0, 5}
RamFills == {3}
RamBases == {0}
RamArounds == {9}
JunkBytes == {0, 165}

CartBases == {32768}
CartFills == {7}
PlainRoms == {NewMem(0)}

\* Pattern ROM images given to the constructor: blank, a pattern of bytes, and
\* the pattern with both planes of every row of tile 1 at 0xFF.
ChrOnes == [fill |-> 11, cells |-> [a \in 16..31 |-> 255]]
ChrRoms == {NewMem(0), NewMem(11), ChrOnes}

\* The frame buffer before the first render: no pass has filled it.
NoFrame == [passes |-> 0, ctrl |-> 0, vram |-> NewMem(0), oam |-> NewMem(0),
            junk |-> 0]

\* The array of get_sprite before the first call.
NoSprite == [j \in 0..7 |-> [col \in 0..7 |-> 0]]

EmptyRun == [idx0 |-> 0, rets |-> << >>]
NoCall == [op |-> "none", key |-> "none", value |-> -1, ret |-> -1, w |-> 0]

InitFrom(vrams, oams, rams, roms) ==
    /\ m_ppuctrl = 0
    /\ m_ppuaddr = 0
    /\ m_ppu_reg_w = 0
    /\ m_vram \in vrams
    /\ m_ppuoam \in oams
    /\ m_ppudata_buffer = 0
    /\ m_controller_strobe = 0
    /\ m_controller_read_no = 0
    /\ m_kb_state = 0
    /\ m_ntick = 0
    /\ cpu_ram \in rams
    /\ apu_log = << >>
    /\ cpu_nmi = 0
    /\ ram_gets = 0
    /\ m_chr_rom \in roms
    /\ m_frame = NoFrame
    /\ sprite = NoSprite
    /\ \E b \in CartBases, r \in CartFills :
            cart_rom = [base |-> b, mem |-> NewMem(r), around |-> 0]
    /\ last = NoCall
    /\ status_hi = -1
    /\ raised = FALSE
    /\ bus_addr = -1
    /\ frame_out = FALSE
    /\ drawn = {}
    /\ run = EmptyRun
    /\ strobe_in = -1
    /\ ub = FALSE
    /\ nops = 0
    /\ nticks = 0
    /\ nmi_off = FALSE

\* Work RAMs that hold leftover bytes.
RamDevs(bases, arounds) ==
    {[base |-> b, mem |-> NewMem(r), around |-> o] :
        b \in bases, r \in RamFills, o \in arounds}

\* VRAM and OAM hold zeros, or leftover bytes.
InitWith(bases, arounds) ==
    \E s \in Fills :
        InitFrom({NewMem(s)}, {NewMem(s)}, RamDevs(bases, arounds), PlainRoms)

Init == InitWith(RamBases, RamArounds)

----------------------------------------------------------------------------
(* PpuDevice helpers *)

get_ppuctrl_bit(status_bit) == BitAnd(m_ppuctrl, status_bit) # 0

\* The cursor after inc_ppuaddr(): uint16_t arithmetic, no 14-bit mask.
inc_ppuaddr ==
    IF get_ppuctrl_bit(PPUCTRL_VRAMINC)
    THEN U16(m_ppuaddr + 32)
    ELSE U16(m_ppuaddr + 1)

\* Whether m_vram[a] is a cell of the array.
InVram(a) == a \in 0..(VRAM_SIZE - 1)

----------------------------------------------------------------------------
(* PpuDevice::set, one operator per case of the switch *)

\* The interrupt asserted by the write that sets the NMI-enable bit.
SetPpuctrl_AssertsNmi(value) ==
    /\ m_ppuctrl' = value
    /\ cpu_nmi' = IF BitAnd(value, PPUCTRL_VBLANKNMI) # 0 THEN cpu_nmi + 1 ELSE cpu_nmi
    /\ UNCHANGED <<m_ppuaddr, m_ppu_reg_w, m_vram, m_ppudata_buffer, m_ppuoam,
                   m_controller_strobe, m_controller_read_no, m_kb_state, m_ntick>>
    /\ UNCHANGED <<cpu_ram, apu_log, ram_gets>>

SetPpuctrl(value) ==
    /\ m_ppuctrl' = value
    /\ UNCHANGED <<m_ppuaddr, m_ppu_reg_w, m_vram, m_ppudata_buffer, m_ppuoam,
                   m_controller_strobe, m_controller_read_no, m_kb_state, m_ntick>>
    /\ UNCHANGED collab

\* The write taken as one to the address latch: the toggle flips.
SetNoop_Toggles ==
    /\ m_ppu_reg_w' = 1 - m_ppu_reg_w
    /\ UNCHANGED <<m_ppuctrl, m_ppuaddr, m_vram, m_ppudata_buffer, m_ppuoam,
                   m_controller_strobe, m_controller_read_no, m_kb_state, m_ntick>>
    /\ UNCHANGED collab

\* KEY_PPUMASK, KEY_PPUSCROLL (a diagnostic on stderr only), KEY_OAMADDR,
\* KEY_OAMDATA and the default case.
SetNoop ==
    /\ UNCHANGED chip
    /\ UNCHANGED collab

PpuaddrLsb(value) == U16(m_ppuaddr * 256 + value)

\* The high byte stored without nulling its two top bits.
PpuaddrMsb_NoMask(value) == value

PpuaddrMsb(value) == BitAnd(value, 63)

SetPpuaddr(value) ==
    /\ IF m_ppu_reg_w = 1
       THEN /\ m_ppuaddr' = PpuaddrLsb(value)
            /\ m_ppu_reg_w' = 0
       ELSE /\ m_ppuaddr' = PpuaddrMsb(value)
            /\ m_ppu_reg_w' = 1
    /\ UNCHANGED <<m_ppuctrl, m_vram, m_ppudata_buffer, m_ppuoam,
                   m_controller_strobe, m_controller_read_no, m_kb_state, m_ntick>>
    /\ UNCHANGED collab

\* m_vram[m_ppuaddr] = value; inc_ppuaddr().  With the cursor outside the
\* array the store lands outside m_vram: no cell of m_vram takes the value,
\* and what it overwrites instead is not part of the modelled state (ub
\* records that it happened).
SetPpudata(value) ==
    /\ m_vram' = IF InVram(m_ppuaddr) THEN MemWrite(m_vram, m_ppuaddr, value)
                 ELSE m_vram
    /\ m_ppuaddr' = inc_ppuaddr
    /\ UNCHANGED <<m_ppuctrl, m_ppu_reg_w, m_ppudata_buffer, m_ppuoam,
                   m_controller_strobe, m_controller_read_no, m_kb_state, m_ntick>>
    /\ UNCHANGED collab

\* The source address taken without the shift to the high byte.
oamdma_source_addr_NoShift(value) == value

oamdma_source_addr(value) == U16(value * 256)

\* for (i = 0; i < 256; i++) m_ppuoam[i] = m_cpu_ram->get(source + i):
\* every cell 0..OAM_SIZE-1 is stored once, from one get each.
OamdmaByte(source, i) == RamGet(cpu_ram, U16(source + i))

OamdmaLoop(oam, source) ==
    [fill |-> oam.fill,
     cells |-> [i \in {j \in 0..(OAM_SIZE - 1) :
                          OamdmaByte(source, j) # Fill(oam.fill, j)} |->
                   OamdmaByte(source, i)]]

SetOamdma(value) ==
    /\ m_ppuoam' = OamdmaLoop(m_ppuoam, oamdma_source_addr(value))
    /\ ram_gets' = ram_gets + OAM_SIZE
    /\ UNCHANGED <<m_ppuctrl, m_ppuaddr, m_ppu_reg_w, m_vram, m_ppudata_buffer,
                   m_controller_strobe, m_controller_read_no, m_kb_state, m_ntick>>
    /\ UNCHANGED <<cpu_ram, apu_log, cpu_nmi>>

SetCtrl1(value) ==
    /\ m_controller_strobe' = BitAnd(value, 1)
    /\ m_controller_read_no' = IF BitAnd(value, 1) = 1 THEN 0
                               ELSE m_controller_read_no
    /\ UNCHANGED <<m_ppuctrl, m_ppuaddr, m_ppu_reg_w, m_vram, m_ppudata_buffer,
                   m_ppuoam, m_kb_state, m_ntick>>
    /\ UNCHANGED collab

\* m_apu->set(addr, value)
ApuSet(log, addr, value) == Append(log, <<addr, value>>)

\* case KEY_CTRL2: one forward, then falls into default.
CaseCtrl2(log, addr, value) == ApuSet(log, addr, value)

\* case KEY_APU_STATUS: one forward and, with no break, the KEY_CTRL2 case.
CaseApuStatus(log, addr, value) == CaseCtrl2(ApuSet(log, addr, value), addr, value)

SetApu(addr, value) ==
    /\ apu_log' = IF addr = KEY_APU_STATUS THEN CaseApuStatus(apu_log, addr, value)
                  ELSE CaseCtrl2(apu_log, addr, value)
    /\ UNCHANGED chip
    /\ UNCHANGED <<cpu_ram, cpu_nmi, ram_gets>>

Set(addr, value) ==
    /\ CASE addr = KEY_PPUCTRL -> SetPpuctrl(value)
         [] addr = KEY_PPUADDR -> SetPpuaddr(value)
         [] addr = KEY_PPUDATA -> SetPpudata(value)
         [] addr = KEY_OAMDMA -> SetOamdma(value)
         [] addr = KEY_CTRL1 -> SetCtrl1(value)
         [] addr \in {KEY_APU_STATUS, KEY_CTRL2} -> SetApu(addr, value)
         [] OTHER -> SetNoop
    /\ last' = [op |-> "set", key |-> addr, value |-> value, ret |-> -1,
                w |-> m_ppu_reg_w]
    /\ run' = EmptyRun
    /\ strobe_in' = IF addr = KEY_CTRL1 THEN value % 2 ELSE strobe_in
    /\ ub' = (ub \/ (addr = KEY_PPUDATA /\ ~InVram(m_ppuaddr)))
    /\ nops' = nops + 1
    /\ status_hi' = IF addr = KEY_PPUADDR /\ last.op = "get" /\ last.key = KEY_PPUSTATUS
                    THEN status_hi ELSE -1
    /\ raised' = FALSE
    /\ bus_addr' = -1
    /\ UNCHANGED <<video, cart_rom, frame_out, drawn, nticks, nmi_off>>

----------------------------------------------------------------------------
(* PpuDevice::get, one operator per case of the switch; ret is the value    *)
(* returned                                                                 *)

\* retval = m_ppudata_buffer; m_ppudata_buffer = m_vram[m_ppuaddr];
\* inc_ppuaddr().  With the cursor outside the array the load reads whatever
\* byte lies there.
GetPpudata(ret) ==
    /\ ret = m_ppudata_buffer
    /\ IF InVram(m_ppuaddr)
       THEN m_ppudata_buffer' = MemRead(m_vram, m_ppuaddr)
       ELSE m_ppudata_buffer' \in JunkBytes
    /\ m_ppuaddr' = inc_ppuaddr
    /\ UNCHANGED <<m_ppuctrl, m_ppu_reg_w, m_vram, m_ppuoam,
                   m_controller_strobe, m_controller_read_no, m_kb_state, m_ntick>>
    /\ UNCHANGED collab

PPUSTATUS_VALUE == 128

\* The status read resetting the address-latch toggle, as the hardware does.
GetPpustatus_LatchReset(ret) ==
    /\ ret = PPUSTATUS_VALUE
    /\ m_ppu_reg_w' = 0
    /\ UNCHANGED <<m_ppuctrl, m_ppuaddr, m_vram, m_ppudata_buffer, m_ppuoam,
                   m_controller_strobe, m_controller_read_no, m_kb_state, m_ntick>>
    /\ UNCHANGED collab

GetPpustatus(ret) ==
    /\ ret = PPUSTATUS_VALUE
    /\ UNCHANGED chip
    /\ UNCHANGED collab

\* The bits taken from the top: bit 7 first.
ControllerBit_MsbFirst(controller_state, read_no) ==
    BitAnd(ShiftRight(controller_state, 7 - read_no), 1)

\* (controller_state >> m_controller_read_no) & 1
ControllerBit(controller_state, read_no) ==
    BitAnd(ShiftRight(controller_state, read_no), 1)

\* The read index never advanced.
NextReadNo_Never == m_controller_read_no

\* The read index advanced in strobe mode too.
NextReadNo_Always == m_controller_read_no + 1

\* The read index after a read that found it at most 7.
NextReadNo ==
    IF m_controller_strobe = 0 THEN m_controller_read_no + 1
    ELSE m_controller_read_no

GetCtrl1(ret) ==
    /\ IF m_controller_read_no > 7
       THEN /\ ret = 1
            /\ UNCHANGED m_controller_read_no
       ELSE /\ ret = ControllerBit(m_kb_state, m_controller_read_no)
            /\ m_controller_read_no' = NextReadNo
    /\ UNCHANGED <<m_ppuctrl, m_ppuaddr, m_ppu_reg_w, m_vram, m_ppudata_buffer,
                   m_ppuoam, m_controller_strobe, m_kb_state, m_ntick>>
    /\ UNCHANGED collab

\* default: retval is returned as it was declared, without a value.
GetDefault(ret) ==
    /\ UNCHANGED chip
    /\ UNCHANGED collab

\* The bytes a get(addr) can return in the current state (the cases above
\* pick theirs; the default case returns any).
Returnable(addr) ==
    CASE addr = KEY_PPUDATA -> {m_ppudata_buffer}
      [] addr = KEY_PPUSTATUS -> {PPUSTATUS_VALUE}
      [] addr = KEY_CTRL1 -> {0, 1}
      [] OTHER -> JunkBytes

\* The controller reads made in a row, the first MaxRun of them.
PushRun(ret) ==
    IF run.rets = << >> THEN [idx0 |-> m_controller_read_no, rets |-> <<ret>>]
    ELSE IF Len(run.rets) < MaxRun THEN [run EXCEPT !.rets = Append(@, ret)]
    ELSE run

Get(addr) ==
    \E ret \in Returnable(addr) :
        /\ CASE addr = KEY_PPUDATA -> GetPpudata(ret)
             [] addr = KEY_PPUSTATUS -> GetPpustatus(ret)
             [] addr = KEY_CTRL1 -> GetCtrl1(ret)
             [] OTHER -> GetDefault(ret)
        /\ last' = [op |-> "get", key |-> addr, value |-> -1, ret |-> ret,
                    w |-> m_ppu_reg_w]
        /\ run' = IF addr = KEY_CTRL1 THEN PushRun(ret) ELSE EmptyRun
        /\ ub' = (ub \/ (addr = KEY_PPUDATA /\ ~InVram(m_ppuaddr)))
        /\ nops' = nops + 1
        /\ status_hi' =
              IF addr # KEY_PPUSTATUS THEN -1
              ELSE IF last.op = "set" /\ last.key = KEY_PPUADDR /\ last.w = 0
                   THEN last.value
                   ELSE IF last.op = "get" /\ last.key = KEY_PPUSTATUS THEN status_hi
                        ELSE -1
        /\ raised' = FALSE
        /\ bus_addr' = -1
        /\ UNCHANGED <<video, cart_rom, frame_out, drawn, strobe_in, nticks, nmi_off>>

----------------------------------------------------------------------------
(* The chip's other entry points *)

set_kb_state(kb_state) ==
    /\ m_kb_state' = kb_state
    /\ UNCHANGED <<m_ppuctrl, m_ppuaddr, m_ppu_reg_w, m_vram, m_ppudata_buffer,
                   m_ppuoam, m_controller_strobe, m_controller_read_no, m_ntick>>
    /\ UNCHANGED collab
    /\ last' = [op |-> "set_kb_state", key |-> "none", value |-> kb_state,
                ret |-> -1, w |-> m_ppu_reg_w]
    /\ run' = EmptyRun
    /\ nops' = nops + 1
    /\ status_hi' = -1
    /\ raised' = FALSE
    /\ bus_addr' = -1
    /\ UNCHANGED <<video, cart_rom, frame_out, drawn, strobe_in, ub, nticks, nmi_off>>

\* m_ntick += 1; if (m_ntick % 89342 == 89341) { m_ntick = 0; NMI if enabled }
\* m_ntick is wide enough for 89341 (it never grows past it).
tick ==
    /\ IF (m_ntick + 1) % FRAME_MOD = FRAME_HIT
       THEN /\ m_ntick' = 0
            /\ cpu_nmi' = IF get_ppuctrl_bit(PPUCTRL_VBLANKNMI) THEN cpu_nmi + 1
                          ELSE cpu_nmi
       ELSE /\ m_ntick' = m_ntick + 1
            /\ UNCHANGED cpu_nmi
    /\ UNCHANGED <<m_ppuctrl, m_ppuaddr, m_ppu_reg_w, m_vram, m_ppudata_buffer,
                   m_ppuoam, m_controller_strobe, m_controller_read_no, m_kb_state>>
    /\ UNCHANGED <<cpu_ram, apu_log, ram_gets>>
    /\ last' = [op |-> "tick", key |-> "none", value |-> -1, ret |-> -1,
                w |-> m_ppu_reg_w]
    /\ nticks' = nticks + 1
    /\ nmi_off' = (nmi_off \/ ~get_ppuctrl_bit(PPUCTRL_VBLANKNMI))
    /\ status_hi' = -1
    /\ raised' = FALSE
    /\ bus_addr' = -1
    /\ UNCHANGED <<video, cart_rom, frame_out, drawn, run, strobe_in, ub, nops>>

\* The bus master stores a byte in the work RAM (RamDevice::set), inside mem.
RamSet(addr, val) ==
    /\ (addr - cpu_ram.base) \in 0..(RAM_SIZE - 1)
    /\ cpu_ram' = RamDevSet(cpu_ram, addr, val)
    /\ UNCHANGED chip
    /\ UNCHANGED <<apu_log, cpu_nmi, ram_gets>>
    /\ last' = [op |-> "ram_set", key |-> "none", value |-> val, ret |-> -1,
                w |-> m_ppu_reg_w]
    /\ run' = EmptyRun
    /\ nops' = nops + 1
    /\ status_hi' = -1
    /\ raised' = FALSE
    /\ bus_addr' = addr
    /\ UNCHANGED <<video, cart_rom, frame_out, drawn, strobe_in, ub, nticks, nmi_off>>

\* The ghost variables after a call on a bus segment other than RamSet.
BusCall(op, addr, val, ret, throws) ==
    /\ last' = [op |-> op, key |-> "none", value |-> val, ret |-> ret,
                w |-> m_ppu_reg_w]
    /\ run' = EmptyRun
    /\ nops' = nops + 1
    /\ status_hi' = -1
    /\ raised' = throws
    /\ bus_addr' = addr
    /\ UNCHANGED <<video, frame_out, drawn, strobe_in, ub, nticks, nmi_off>>

\* The bus master reads a byte of the work RAM (RamDevice::get).
RamGetOp(addr) ==
    /\ UNCHANGED chip
    /\ UNCHANGED <<cpu_ram, apu_log, cpu_nmi, ram_gets, cart_rom>>
    /\ BusCall("ram_get", addr, -1, RamGet(cpu_ram, addr), FALSE)

\* The bus master reads a byte of the cartridge ROM (CartridgeRomDevice::get).
RomGetOp(addr) ==
    /\ UNCHANGED chip
    /\ UNCHANGED <<cpu_ram, apu_log, cpu_nmi, ram_gets, cart_rom>>
    /\ BusCall("rom_get", addr, -1, RomGet(cart_rom, addr), FALSE)

\* The bus master stores a byte in the cartridge ROM (CartridgeRomDevice::set):
\* the call throws.
RomSetOp(addr, val) ==
    /\ cart_rom' = RomDevSet(cart_rom, addr, val)
    /\ UNCHANGED chip
    /\ UNCHANGED <<cpu_ram, apu_log, cpu_nmi, ram_gets>>
    /\ BusCall("rom_set", addr, val, -1, TRUE)

----------------------------------------------------------------------------
(* Rendering: get_sprite, add_sprite, render_nametable, render_oam, render  *)
(*                                                                          *)
(* The operators take the control byte, VRAM, OAM and pattern ROM they read *)
(* as parameters.  The background pass stores every pixel of the 240 x 256  *)
(* grid (30 x 32 cells of 8 x 8), so that after it nothing of an earlier    *)
(* frame is left: m_frame is kept as the control byte, VRAM and OAM the     *)
(* passes read, and FramePixel gives the content of each pixel from them.   *)

\* get_ppuctrl_bit on a given control byte.
CtrlBit(ctrl, status_bit) == BitAnd(ctrl, status_bit) # 0

BoolInt(b) == IF b THEN 1 ELSE 0

\* uint16_t plane0_addr = (sprite_no + 256*table_no) << 4
plane0_addr(sprite_no, table_no) == U16((sprite_no + 256 * BoolInt(table_no)) * 16)

\* The row written from bit 0 on the left: sprite[j][i] = color.
get_sprite_LsbFirst(rom, sprite_no, table_no) ==
    [j \in 0..7 |-> [col \in 0..7 |->
        LET plane0 == MemRead(rom, plane0_addr(sprite_no, table_no) + j)
            plane1 == MemRead(rom, plane0_addr(sprite_no, table_no) + j + 8)
        IN  BitAnd(ShiftRight(plane1, col), 1) * 2
                + BitAnd(ShiftRight(plane0, col), 1)]]

\* sprite[j][7-i] = (((plane1 >> i) & 1) << 1) + ((plane0 >> i) & 1)
get_sprite(rom, sprite_no, table_no) ==
    [j \in 0..7 |-> [col \in 0..7 |->
        LET i == 7 - col
            plane0 == MemRead(rom, plane0_addr(sprite_no, table_no) + j)
            plane1 == MemRead(rom, plane0_addr(sprite_no, table_no) + j + 8)
            color0 == BitAnd(ShiftRight(plane0, i), 1)
            color1 == BitAnd(ShiftRight(plane1, i), 1)
        IN  color1 * 2 + color0]]

\* The four branches of add_sprite on hflip and vflip.
pix_color(spr, x, y, hflip, vflip) ==
    IF ~hflip /\ ~vflip THEN spr[y][x]
    ELSE IF ~vflip THEN spr[y][7 - x]
    ELSE IF ~hflip THEN spr[7 - y][x]
    ELSE spr[7 - y][7 - x]

\* cv::Vec3b(0, 0, 0)
Black == [table |-> -1, junk |-> 0]

\* A pixel no pass has stored yet.
Unwritten == [table |-> -2, junk |-> 0]

NoWrite == [table |-> -3, junk |-> 0]

\* NES_COLORS[color_no]: an entry of the colour table, or for color_no past
\* its end the bytes that lie behind the table (junk stands for them).
NES_COLORS(color_no, junk) ==
    IF color_no < NES_COLORS_SIZE THEN [table |-> color_no, junk |-> 0]
    ELSE [table |-> color_no, junk |-> junk]

\* A pixel of colour index 0 stored as black in the sprite pass too.
add_sprite_rgb_Opaque(vram, palette_no, pc, transparent_bg, junk) ==
    IF pc # 0
    THEN NES_COLORS(MemRead(vram, PALETTES + palette_no * 4 + pc), junk)
    ELSE Black

\* The colour add_sprite stores for a pixel, or NoWrite where it continues
\* without storing one.
add_sprite_rgb(vram, palette_no, pc, transparent_bg, junk) ==
    IF pc # 0
    THEN NES_COLORS(MemRead(vram, PALETTES + palette_no * 4 + pc), junk)
    ELSE IF transparent_bg THEN NoWrite
    ELSE Black

\* The pixel (x, y) of add_sprite(frame, sprite_no, table_no, sprite_x,
\* sprite_y, palette_no, hflip, vflip, transparent_bg): what is stored at
\* frame->at(sprite_y + y, sprite_x + x).
add_sprite(vram, rom, a, x, y, junk) ==
    add_sprite_rgb(vram, a.palette_no,
                   pix_color(get_sprite(rom, a.sprite_no, a.table_no), x, y,
                             a.hflip, a.vflip),
                   a.transparent_bg, junk)

nametable_base_addr(ctrl) == NAMETABLE_0 + NAMETABLE_SIZE * BitAnd(ctrl, 3)

attribute_table_addr(sprite_x, sprite_y) ==
    ATTRIBUTE_TABLE + (sprite_y \div 4) * 8 + sprite_x \div 4

\* The two shifts exchanged: 2 for bottom, 4 for right.
attr_bitshift_Swapped(sprite_x, sprite_y) ==
    (IF sprite_y % 4 > 1 THEN 2 ELSE 0) + (IF sprite_x % 4 > 1 THEN 4 ELSE 0)

attr_bitshift(sprite_x, sprite_y) ==
    (IF sprite_y % 4 > 1 THEN 4 ELSE 0) + (IF sprite_x % 4 > 1 THEN 2 ELSE 0)

\* The arguments render_nametable gives add_sprite for the cell
\* (sprite_x, sprite_y), sprite_x in 0..31 and sprite_y in 0..29.
render_nametable(ctrl, vram, sprite_x, sprite_y) ==
    [sprite_no |-> MemRead(vram, nametable_base_addr(ctrl) + sprite_x + sprite_y * 32),
     table_no |-> CtrlBit(ctrl, PPUCTRL_BGPATTTABLE),
     sprite_x |-> sprite_x * 8,
     sprite_y |-> sprite_y * 8,
     palette_no |-> BitAnd(ShiftRight(MemRead(vram, nametable_base_addr(ctrl)
                                        + attribute_table_addr(sprite_x, sprite_y)),
                                      attr_bitshift(sprite_x, sprite_y)), 3),
     hflip |-> FALSE, vflip |-> FALSE, transparent_bg |-> FALSE]

\* Every entry drawn, the hidden ones too.
OamSkipped_Never(oam, i) == FALSE

\* if (sprite_y == 255) continue;
OamSkipped(oam, i) == MemRead(oam, i * 4) = 255

\* The arguments render_oam gives add_sprite for the OAM entry i in 0..63.
render_oam(ctrl, oam, i) ==
    [sprite_no |-> MemRead(oam, i * 4 + 1),
     table_no |-> CtrlBit(ctrl, PPUCTRL_OAMPATTTABLE),
     sprite_x |-> MemRead(oam, i * 4 + 3),
     sprite_y |-> MemRead(oam, i * 4),
     palette_no |-> BitAnd(MemRead(oam, i * 4 + 2), 3) + 4,
     hflip |-> BitAnd(MemRead(oam, i * 4 + 2), PPUOAM_ATT_HFLIP) # 0,
     vflip |-> BitAnd(MemRead(oam, i * 4 + 2), PPUOAM_ATT_VFLIP) # 0,
     transparent_bg |-> TRUE]

\* The OAM entries render_oam passes to add_sprite.
OamDrawn(oam) == {i \in 0..63 : ~OamSkipped(oam, i)}

\* What the background pass stores at pixel (r, c) of the grid.
BgPixel(f, rom, r, c) ==
    add_sprite(f.vram, rom, render_nametable(f.ctrl, f.vram, c \div 8, r \div 8),
               c % 8, r % 8, f.junk)

\* What add_sprite for the OAM entry i stores in the pixel (r, c) of the
\* grid, or NoWrite.  frame->at(row, col) is the element row * 256 + col of
\* the buffer: a column past 255 is a pixel of the next row.
SpriteAt(f, rom, i, r, c) ==
    LET a == render_oam(f.ctrl, f.oam, i)
        y == r - a.sprite_y
        x == c - a.sprite_x
    IN  IF y \in 0..7 /\ x \in 0..7
        THEN add_sprite(f.vram, rom, a, x, y, f.junk)
        ELSE IF (y - 1) \in 0..7 /\ (x + FRAME_COLS) \in 0..7
             THEN add_sprite(f.vram, rom, a, x + FRAME_COLS, y - 1, f.junk)
             ELSE NoWrite

\* The pixel (r, c) after the background pass and the OAM entries 0..k-1.
RECURSIVE FrameAfter(_, _, _, _, _)
FrameAfter(f, rom, k, r, c) ==
    IF k = 0 THEN BgPixel(f, rom, r, c)
    ELSE IF ~OamSkipped(f.oam, k - 1) /\ SpriteAt(f, rom, k - 1, r, c) # NoWrite
         THEN SpriteAt(f, rom, k - 1, r, c)
         ELSE FrameAfter(f, rom, k - 1, r, c)

\* The content of the pixel (r, c) of the frame buffer f.
FramePixel(f, rom, r, c) ==
    IF f.passes = 0 THEN Unwritten
    ELSE IF f.passes = 1 THEN BgPixel(f, rom, r, c)
    ELSE FrameAfter(f, rom, 64, r, c)

\* The pixels (x, y) of the OAM entry i that add_sprite stores outside the
\* 240 x 256 grid.  Those of a row past 239 lie outside the buffer: what they
\* overwrite is not part of the modelled state.
OutOfGrid(ctrl, vram, oam, rom, i) ==
    LET a == render_oam(ctrl, oam, i)
    IN  IF a.sprite_y + 7 < FRAME_ROWS /\ a.sprite_x + 7 < FRAME_COLS THEN {}
        ELSE {p \in (0..7) \X (0..7) :
                /\ (a.sprite_y + p[2] >= FRAME_ROWS \/ a.sprite_x + p[1] >= FRAME_COLS)
                /\ add_sprite(vram, rom, a, p[1], p[2], 0) # NoWrite}

\* Whether some palette byte selects a colour past the end of NES_COLORS.
PaletteOverrun(vram) ==
    \E a \in PALETTES..(PALETTES + 31) : MemRead(vram, a) >= NES_COLORS_SIZE

ColorJunk == {1, 2}

\* render(): render_nametable, then render_oam, which throws in 8x16 mode.
render ==
    LET spritesize == CtrlBit(m_ppuctrl, PPUCTRL_SPRITESIZE)
        shown == IF spritesize THEN {} ELSE OamDrawn(m_ppuoam)
    IN  /\ \E junk \in (IF PaletteOverrun(m_vram) THEN ColorJunk ELSE {0}) :
                m_frame' = [passes |-> IF spritesize THEN 1 ELSE 2,
                            ctrl |-> m_ppuctrl, vram |-> m_vram,
                            oam |-> IF spritesize THEN NewMem(0) ELSE m_ppuoam,
                            junk |-> junk]
        /\ raised' = spritesize
        /\ drawn' = shown
        /\ frame_out' = (frame_out \/ \E i \in shown :
                            OutOfGrid(m_ppuctrl, m_vram, m_ppuoam, m_chr_rom, i) # {})
        /\ UNCHANGED chip
        /\ UNCHANGED <<m_chr_rom, sprite, cart_rom>>
        /\ UNCHANGED collab
        /\ last' = [op |-> "render", key |-> "none", value |-> -1, ret |-> -1,
                    w |-> m_ppu_reg_w]
        /\ run' = EmptyRun
        /\ nops' = nops + 1
        /\ status_hi' = -1
        /\ bus_addr' = -1
        /\ UNCHANGED <<strobe_in, ub, nticks, nmi_off>>

\* get_sprite(sprite, sprite_no, table_no, false), called on its own.
GetSprite(sprite_no, table_no) ==
    /\ sprite' = get_sprite(m_chr_rom, sprite_no, table_no)
    /\ UNCHANGED chip
    /\ UNCHANGED <<m_chr_rom, m_frame, cart_rom>>
    /\ UNCHANGED collab
    /\ last' = [op |-> "get_sprite", key |-> "none", value |-> sprite_no,
                ret |-> BoolInt(table_no), w |-> m_ppu_reg_w]
    /\ run' = EmptyRun
    /\ nops' = nops + 1
    /\ status_hi' = -1
    /\ raised' = FALSE
    /\ bus_addr' = -1
    /\ UNCHANGED <<frame_out, drawn, strobe_in, ub, nticks, nmi_off>>

----------------------------------------------------------------------------
(* Specifications *)

\* Every operation of the chip, on a few values each.
CtrlBytes == {4, 128}
AddrBytes == {255}
DataBytes == {17}
DmaBytes == {2}
StrobeBytes == {1, 2}
KbBytes == {177}
SetKeys == {KEY_PPUMASK, KEY_PPUSCROLL, KEY_OAMADDR, KEY_OAMDATA, KEY_OTHER}
GetKeys == {KEY_PPUSTATUS, KEY_OTHER}

WriteCtrl == nops < MaxOps /\ \E v \in CtrlBytes : Set(KEY_PPUCTRL, v)
WriteAddr == nops < MaxOps /\ \E v \in AddrBytes : Set(KEY_PPUADDR, v)
WriteData == nops < MaxOps /\ \E v \in DataBytes : Set(KEY_PPUDATA, v)
WriteDma == nops < MaxOps /\ \E v \in DmaBytes : Set(KEY_OAMDMA, v)
WriteStrobe == nops < MaxOps /\ \E v \in StrobeBytes : Set(KEY_CTRL1, v)
WriteApu == nops < MaxOps /\ \E k \in {KEY_APU_STATUS, KEY_CTRL2}, v \in DataBytes : Set(k, v)
WriteOther ==
    nops < MaxOps /\ \E k \in SetKeys :
        \E v \in (IF k = KEY_PPUSCROLL THEN {0, 17} ELSE {17}) : Set(k, v)
ReadData == nops < MaxOps /\ Get(KEY_PPUDATA)
ReadCtrl1 == nops < MaxOps /\ Get(KEY_CTRL1)
ReadOther == nops < MaxOps /\ \E k \in GetKeys : Get(k)
SetKb == nops < MaxOps /\ \E v \in KbBytes : set_kb_state(v)
Tick == nticks < MaxTicksFull /\ tick
BusRamSet == nops < MaxOps /\ \E a \in {513}, v \in {17} : RamSet(a, v)

Next ==
    \/ WriteCtrl
    \/ WriteAddr
    \/ WriteData
    \/ WriteDma
    \/ WriteStrobe
    \/ WriteApu
    \/ WriteOther
    \/ ReadData
    \/ ReadCtrl1
    \/ ReadOther
    \/ SetKb
    \/ Tick
    \/ BusRamSet

Spec == Init /\ [][Next]_vars

\* The address register alone, on every byte.
InitZero == Init /\ m_vram.fill = 0

WriteAddrAny == nops < MaxAddrOps /\ \E v \in Byte : Set(KEY_PPUADDR, v)

NextAddr == WriteAddrAny

SpecAddr == InitZero /\ [][NextAddr]_vars

\* The address, data and control registers.
VramAddrBytes == {0, 63, 255}
VramDataBytes == {17, 34}
VramCtrlBytes == {0, 4}

VWriteAddr == nops < MaxVramOps /\ \E v \in VramAddrBytes : Set(KEY_PPUADDR, v)
VWriteData == nops < MaxVramOps /\ \E v \in VramDataBytes : Set(KEY_PPUDATA, v)
VReadData == nops < MaxVramOps /\ Get(KEY_PPUDATA)
VWriteCtrl == nops < MaxVramOps /\ \E v \in VramCtrlBytes : Set(KEY_PPUCTRL, v)

NextVram ==
    \/ VWriteAddr
    \/ VWriteData
    \/ VReadData
    \/ VWriteCtrl

SpecVram == Init /\ [][NextVram]_vars

\* OAM DMA from a work RAM the bus master writes, at either base address.
DmaRamBases == {0, 512}
DmaPages == {0, 2, 127, 128, 255}
DmaRamAddrs == {513, 767}
DmaRamArounds == {0, 9}

InitDma == InitWith(DmaRamBases, DmaRamArounds)

DWriteDma == nops < MaxDmaOps /\ \E v \in DmaPages : Set(KEY_OAMDMA, v)
DRamSet == nops < MaxDmaOps /\ \E a \in DmaRamAddrs : RamSet(a, 17)
DWriteAddr == nops < MaxDmaOps /\ Set(KEY_PPUADDR, 63)
DWriteData == nops < MaxDmaOps /\ Set(KEY_PPUDATA, 17)
DReadData == nops < MaxDmaOps /\ Get(KEY_PPUDATA)

NextDma ==
    \/ DWriteDma
    \/ DRamSet
    \/ DWriteAddr
    \/ DWriteData
    \/ DReadData

SpecDma == InitDma /\ [][NextDma]_vars

\* The controller port: strobe writes, reads and new controller states.
CtrlStrobeBytes == {0, 1, 2, 3}
CtrlKbBytes == {177, 78, 0, 255}

CWriteStrobe == nops < MaxCtrlOps /\ \E v \in CtrlStrobeBytes : Set(KEY_CTRL1, v)
CReadCtrl1 == nops < MaxCtrlOps /\ Get(KEY_CTRL1)
CSetKb == nops < MaxCtrlOps /\ \E v \in CtrlKbBytes : set_kb_state(v)

NextCtrl ==
    \/ CWriteStrobe
    \/ CReadCtrl1
    \/ CSetKb

SpecCtrl == InitZero /\ [][NextCtrl]_vars

\* The tick counter over more than one frame, with control register writes.
TickCtrlBytes == {0, 128}

TTick == nticks < MaxTicks /\ tick
TWriteCtrl == nops < MaxTickOps /\ \E v \in TickCtrlBytes : Set(KEY_PPUCTRL, v)

NextTick ==
    \/ TTick
    \/ TWriteCtrl

SpecTick == InitZero /\ [][NextTick]_vars

\* The status register among address and data register accesses.
StatusAddrBytes == {18, 63, 255}

SWriteAddr == nops < MaxStatusOps /\ \E v \in StatusAddrBytes : Set(KEY_PPUADDR, v)
SReadStatus == nops < MaxStatusOps /\ Get(KEY_PPUSTATUS)
SWriteData == nops < MaxStatusOps /\ Set(KEY_PPUDATA, 17)
SReadData == nops < MaxStatusOps /\ Get(KEY_PPUDATA)

NextStatus ==
    \/ SWriteAddr
    \/ SReadStatus
    \/ SWriteData
    \/ SReadData

SpecStatus == Init /\ [][NextStatus]_vars

\* The two bus segments under reads and writes of the bus master.
BusRomAddrs == {32768, 40000, 65535}
BusRamAddrs == {0, 513, 32767}
BusBytes == {0, 16, 17}

BRomSet == nops < MaxBusOps /\ \E a \in BusRomAddrs, v \in BusBytes : RomSetOp(a, v)
BRomGet == nops < MaxBusOps /\ \E a \in BusRomAddrs : RomGetOp(a)
BRamSet == nops < MaxBusOps /\ \E a \in BusRamAddrs, v \in BusBytes : RamSet(a, v)
BRamGet == nops < MaxBusOps /\ \E a \in BusRamAddrs : RamGetOp(a)

NextBus ==
    \/ BRomSet
    \/ BRomGet
    \/ BRamSet
    \/ BRamGet

SpecBus == InitZero /\ [][NextBus]_vars

\* The tile decode on tiles of both pattern tables: the first, the last and
\* those around the middle of a table.
DecodeTiles == (0..15) \cup (120..135) \cup (252..255)

InitDecode ==
    InitFrom({NewMem(0)}, {NewMem(0)}, RamDevs(RamBases, RamArounds), ChrRoms)

DGetSprite ==
    nops < MaxDecodeOps /\ \E n \in DecodeTiles, t \in BOOLEAN : GetSprite(n, t)

NextDecode == DGetSprite

SpecDecode == InitDecode /\ [][NextDecode]_vars

\* Rendering.  VRAM starts with leftover bytes in the nametables and
\* attribute tables and with 32 palette bytes that each select another
\* non-black entry of the colour table; OAM starts with every entry hidden;
\* page 2 of the work RAM holds the sprites of RenderSprites, the rest 0xFF.
PaletteByte(k) ==
    IF k < 13 THEN 16 + k
    ELSE IF k < 26 THEN 32 + (k - 13)
    ELSE 48 + (k - 26)

RenderVram ==
    [fill |-> 5, cells |-> [a \in PALETTES..(PALETTES + 31) |-> PaletteByte(a - PALETTES)]]

\* Y, tile, attributes, X of the OAM entries 0..5: three sprites that overlap
\* (no flip, hflip, both flips), one across the right edge (vflip), one across
\* the bottom edge, one hidden.
RenderSprites ==
    <<16, 1, 0, 16,   18, 2, 65, 20,   20, 3, 194, 22,
      100, 4, 131, 252,   236, 1, 0, 40,   255, 1, 0, 0>>

RenderRam ==
    [base |-> 0, around |-> 9,
     mem |-> [fill |-> 255,
              cells |-> [a \in {512 + n : n \in {k \in 0..23 : RenderSprites[k + 1] # 255}}
                            |-> RenderSprites[a - 511]]]]

InitRender == InitFrom({RenderVram}, {NewMem(255)}, {RenderRam}, {NewMem(11), ChrOnes})

RenderCtrlBytes == {0, 1, 2, 27, 32}
RenderAddrBytes == {35, 192}
RenderDmaPages == {0, 2}

RWriteCtrl == nops < MaxRenderOps /\ \E v \in RenderCtrlBytes : Set(KEY_PPUCTRL, v)
RWriteAddr == nops < MaxRenderOps /\ \E v \in RenderAddrBytes : Set(KEY_PPUADDR, v)
RWriteData == nops < MaxRenderOps /\ Set(KEY_PPUDATA, 228)
RWriteDma == nops < MaxRenderOps /\ \E v \in RenderDmaPages : Set(KEY_OAMDMA, v)
RRender == nops < MaxRenderOps /\ render

NextRender ==
    \/ RWriteCtrl
    \/ RWriteAddr
    \/ RWriteData
    \/ RWriteDma
    \/ RRender

SpecRender == InitRender /\ [][NextRender]_vars

\* The tick counter over a frame, with register accesses and renders made
\* from MaxNmiLead ticks before the counter wraps.
NmiOps == nops < MaxNmiOps /\ nticks + MaxNmiLead >= FRAME_HIT

NTick == nticks < MaxNmiTicks /\ tick
NWriteCtrl == NmiOps /\ \E v \in TickCtrlBytes : Set(KEY_PPUCTRL, v)
NWriteScroll == NmiOps /\ Set(KEY_PPUSCROLL, 17)
NReadStatus == NmiOps /\ Get(KEY_PPUSTATUS)
NRender == NmiOps /\ render

NextNmi ==
    \/ NTick
    \/ NWriteCtrl
    \/ NWriteScroll
    \/ NReadStatus
    \/ NRender

SpecNmi == InitZero /\ [][NextNmi]_vars

\* Every operation of the chip that the frame's state depends on, render
\* included.
WhoCtrlBytes == {4, 128}
WhoNoopKeys == {KEY_PPUMASK, KEY_PPUSCROLL, KEY_OAMADDR, KEY_OAMDATA}

HWriteCtrl == nops < MaxWhoOps /\ \E v \in WhoCtrlBytes : Set(KEY_PPUCTRL, v)
HWriteAddr == nops < MaxWhoOps /\ Set(KEY_PPUADDR, 63)
HWriteData == nops < MaxWhoOps /\ Set(KEY_PPUDATA, 17)
HWriteDma == nops < MaxWhoOps /\ Set(KEY_OAMDMA, 2)
HWriteNoop ==
    nops < MaxWhoOps /\ \E k \in WhoNoopKeys :
        \E v \in (IF k = KEY_PPUSCROLL THEN {0, 17} ELSE {17}) : Set(k, v)
HReadData == nops < MaxWhoOps /\ Get(KEY_PPUDATA)
HTick == nticks < MaxWhoTicks /\ tick
HRender == nops < MaxWhoOps /\ render

NextWho ==
    \/ HWriteCtrl
    \/ HWriteAddr
    \/ HWriteData
    \/ HWriteDma
    \/ HWriteNoop
    \/ HReadData
    \/ HTick
    \/ HRender

SpecWho == InitZero /\ [][NextWho]_vars

----------------------------------------------------------------------------
(* Claims *)

IsSet(call, key) == call.op = "set" /\ call.key = key
IsGet(call, key) == call.op = "get" /\ call.key = key

\* C1: with the toggle at "expect high byte", two address-register writes in
\* a row, H then L, leave the cursor at ((H & 0x3F) << 8) | L and the toggle
\* back at "expect high byte"; the address write that follows such a pair is
\* taken as the high byte of a new pair.
C1_AddrPair ==
    [][ /\ (IsSet(last, KEY_PPUADDR) /\ last.w = 0 /\ IsSet(last', KEY_PPUADDR))
            => /\ m_ppuaddr' = BitOr(BitAnd(last.value, 63) * 256, last'.value)
               /\ m_ppu_reg_w' = 0
        /\ (IsSet(last, KEY_PPUADDR) /\ last.w = 1 /\ IsSet(last', KEY_PPUADDR))
            => /\ m_ppuaddr' = BitAnd(last'.value, 63)
               /\ m_ppu_reg_w' = 1 ]_vars

\* A third address write, 0xFF, taken as a high byte after a pair that ended
\* with the low byte 0xFF.
C1_Witness ==
    /\ nops = 3
    /\ IsSet(last, KEY_PPUADDR) /\ last.w = 0 /\ last.value = 255
    /\ m_ppuaddr = 63 /\ m_ppu_reg_w = 1

\* The step the control register's VRAM-increment bit selects.
CursorStep == IF BitAnd(m_ppuctrl, PPUCTRL_VRAMINC) # 0 THEN 32 ELSE 1

\* C2: a read of the data register returns the byte the read buffer held,
\* then the buffer takes VRAM[cursor], then the cursor advances by 32 or 1.
C2_DataRead ==
    [][ IsGet(last', KEY_PPUDATA)
            => /\ last'.ret = m_ppudata_buffer
               /\ InVram(m_ppuaddr)
               /\ m_ppudata_buffer' = MemRead(m_vram, m_ppuaddr)
               /\ m_ppuaddr' = U16(m_ppuaddr + CursorStep) ]_vars

\* C3: a write of v to the data register with the cursor at A stores v at
\* VRAM[A], leaves every other cell and the read buffer as they were, and
\* advances the cursor by 32 or 1.
C3_DataWrite ==
    [][ IsSet(last', KEY_PPUDATA)
            => /\ InVram(m_ppuaddr)
               /\ m_vram' = MemWrite(m_vram, m_ppuaddr, last'.value)
               /\ m_ppudata_buffer' = m_ppudata_buffer
               /\ m_ppuaddr' = U16(m_ppuaddr + CursorStep) ]_vars

\* C10: the cursor is a 14-bit value in every state that address, data and
\* control register accesses reach.
C10_Cursor14 == m_ppuaddr \in 0..16383

\* C4: a write of `high` to the OAM DMA register leaves OAM[i] equal to
\* work-RAM[(high << 8) + i] for every i in 0..255, takes exactly 256 reads of
\* the work RAM and no write of it, and leaves VRAM, the cursor, the toggle
\* and the read buffer as they were.
C4_OamDma ==
    [][ IsSet(last', KEY_OAMDMA)
            => /\ \A i \in 0..255 :
                    MemRead(m_ppuoam', i) = RamGet(cpu_ram, last'.value * 256 + i)
               /\ DOMAIN m_ppuoam'.cells \subseteq 0..255
               /\ ram_gets' = ram_gets + 256
               /\ cpu_ram' = cpu_ram
               /\ UNCHANGED <<m_vram, m_ppuaddr, m_ppu_reg_w, m_ppudata_buffer>>
      ]_vars

\* A DMA of page 2 made after the bus master stored 17 at work-RAM address
\* 513 and after a data write moved the cursor and filled a VRAM cell.
C4_Witness ==
    /\ IsSet(last, KEY_OAMDMA) /\ last.value = 2
    /\ cpu_ram.base = 0
    /\ MemRead(m_ppuoam, 1) = 17
    /\ MemRead(m_ppuoam, 2) = RamGet(cpu_ram, 514)
    /\ m_ppuaddr = 1 /\ MemRead(m_vram, 0) = 17

\* Bit k of byte S.
BitOf(S, k) == (S \div Pow2(k)) % 2

\* A row of controller reads that began with strobe = 0 and the index at 0.
RunFromZero == m_controller_strobe = 0 /\ run.rets # << >> /\ run.idx0 = 0

\* C5: with strobe = 0 and the index at 0, the k-th controller read
\* (k = 0..7) returns bit k of the state byte S and advances the index by
\* one; every later read returns 1 and leaves the index alone, until a write
\* with strobe bit 1 puts the index back to 0.
C5_ControllerReads ==
    [][ /\ RunFromZero' =>
            /\ \A n \in 1..Len(run'.rets) :
                  run'.rets[n] = IF n <= 8 THEN BitOf(m_kb_state', n - 1) ELSE 1
            /\ m_controller_read_no' =
                  IF Len(run'.rets) <= 8 THEN Len(run'.rets) ELSE 8
        /\ (IsGet(last', KEY_CTRL1) /\ m_controller_strobe = 0
                /\ m_controller_read_no > 7) =>
            /\ last'.ret = 1
            /\ m_controller_read_no' = m_controller_read_no
        /\ (IsSet(last', KEY_CTRL1) /\ last'.value % 2 = 1) =>
            m_controller_read_no' = 0 ]_vars

\* Nine reads in a row of the state byte 0x4E after the strobe was written 1
\* and then 0: the ninth returned 1 and the index stopped at 8.
C5_Witness ==
    /\ RunFromZero /\ strobe_in = 0
    /\ m_kb_state = 78
    /\ run.rets = <<0, 1, 1, 1, 0, 0, 1, 0, 1>>
    /\ m_controller_read_no = 8

\* The returns the claim lists for the state byte 0b10110001.
C6_Listed == <<0, 1, 0, 0, 1, 1, 0, 1, 1>>

\* The returns of bit 0 first: 0b10110001 has bits 0, 4, 5 and 7 set.
C6_BitZeroFirst == <<1, 0, 0, 0, 1, 1, 0, 1, 1>>

\* C6, as claimed: with strobe = 0, the index at 0 and the state byte
\* 0b10110001, the controller reads return 0,1,0,0,1,1,0,1 and then 1.
C6_Original ==
    (RunFromZero /\ m_kb_state = 177)
        => \A n \in 1..Len(run.rets) : n <= 9 => run.rets[n] = C6_Listed[n]

\* C6, amended: with strobe = 0, the index at 0 and the state byte
\* 0b10110001, the controller reads return 1,0,0,0,1,1,0,1 (bit 0 first) and
\* the ninth returns 1.
C6_ControllerBits ==
    (RunFromZero /\ m_kb_state = 177)
        => \A n \in 1..Len(run.rets) : n <= 9 => run.rets[n] = C6_BitZeroFirst[n]

\* Nine reads in a row of the state byte 0b10110001.
C6_Witness ==
    /\ RunFromZero /\ m_kb_state = 177
    /\ Len(run.rets) = 9

\* C7: while the last write to the strobe register had bit 0 = 1, every
\* controller read returns bit 0 of the current state byte and the read
\* index is 0, whatever other operations are made in between.
C7_StrobeHeld ==
    [][ /\ strobe_in' = 1 => m_controller_read_no' = 0
        /\ (strobe_in = 1 /\ IsGet(last', KEY_CTRL1))
            => last'.ret = m_kb_state % 2 ]_vars

\* A controller read that returned bit 0 of 0b10110001 under a held strobe.
C7_Witness ==
    /\ strobe_in = 1
    /\ IsGet(last, KEY_CTRL1) /\ last.ret = 1
    /\ m_kb_state = 177
    /\ m_controller_read_no = 0

\* C8: from tick counter 0, with the NMI-enable bit set at every tick, after
\* exactly 89342 tick calls the interrupt was asserted exactly once and the
\* tick counter is back at 0.
C8_FramePeriod ==
    (nticks = FRAME_MOD /\ ~nmi_off) => (cpu_nmi = 1 /\ m_ntick = 0)

\* C9: a write of v to KEY_APU_STATUS or KEY_CTRL2 makes exactly one call of
\* the audio collaborator's set, with the same address and v, and changes no
\* state of the chip; a write to any other address makes no such call.
C9_ApuForward ==
    [][ /\ (last'.op = "set" /\ last'.key \in {KEY_APU_STATUS, KEY_CTRL2})
            => /\ apu_log' = Append(apu_log, <<last'.key, last'.value>>)
               /\ UNCHANGED chip
        /\ (last'.op = "set" /\ last'.key \notin {KEY_APU_STATUS, KEY_CTRL2})
            => apu_log' = apu_log ]_vars

\* C11: a read of the status register returns 0b10000000 in every state and
\* changes no state of the chip; after a high address byte H and status
\* read(s), the next address write L is taken as the low byte: the cursor is
\* ((H & 0x3F) << 8) | L and the toggle is back at "expect high byte".
C11_StatusRead ==
    [][ /\ IsGet(last', KEY_PPUSTATUS)
            => /\ last'.ret = 128
               /\ UNCHANGED <<chip, video, collab>>
        /\ (IsGet(last, KEY_PPUSTATUS) /\ status_hi >= 0 /\ IsSet(last', KEY_PPUADDR))
            => /\ m_ppuaddr' = BitOr(BitAnd(status_hi, 63) * 256, last'.value)
               /\ m_ppu_reg_w' = 0 ]_vars

\* The low byte 0x12 written after the high byte 0xFF and a status read.
C11_Witness ==
    /\ IsSet(last, KEY_PPUADDR) /\ last.value = 18 /\ last.w = 1
    /\ status_hi = 255
    /\ m_ppuaddr = 16146 /\ m_ppu_reg_w = 0

\* C15: a write to the cartridge ROM segment always throws and leaves every
\* ROM byte as it was (a read of any address returns the same byte before and
\* after); on the RAM segment a read of address a made after a write of v to
\* a returns v.
C15_RomWriteFails ==
    [][ /\ last'.op = "rom_set"
            => /\ raised'
               /\ cart_rom' = cart_rom
               /\ \A a \in BusRomAddrs : RomGet(cart_rom', a) = RomGet(cart_rom, a)
        /\ (last.op = "ram_set" /\ last'.op = "ram_get" /\ bus_addr' = bus_addr)
            => last'.ret = last.value
        /\ last'.op = "ram_set"
            => RamGet(cpu_ram', bus_addr') = last'.value ]_vars

\* A write of 17 to ROM address 40000 that threw and left the ROM byte 27
\* there, made after a write of 17 to RAM address 513 that a read returns.
C15_Witness ==
    /\ last.op = "rom_set" /\ raised
    /\ bus_addr = 40000 /\ last.value = 17
    /\ RomGet(cart_rom, 40000) = 27
    /\ RamGet(cpu_ram, 513) = 17

\* C16: for every tile number n, pattern table t, row j and column c
\* (0 = leftmost), the decoded colour index is bit (7-c) of
\* ROM[((n + 256*t) << 4) + j], OR-ed with bit (7-c) of
\* ROM[((n + 256*t) << 4) + j + 8] shifted left by 1; a row whose two plane
\* bytes are 0xFF decodes to 3 in every column.
C16_TileDecode ==
    last.op = "get_sprite" =>
        \A j \in 0..7, c \in 0..7 :
            LET at == (last.value + 256 * last.ret) * 16
                b0 == MemRead(m_chr_rom, at + j)
                b1 == MemRead(m_chr_rom, at + j + 8)
            IN  /\ sprite[j][c] = BitOr(BitOf(b0, 7 - c), BitOf(b1, 7 - c) * 2)
                /\ (b0 = 255 /\ b1 = 255) => sprite[j][c] = 3

\* Tile 1 of table 0 decoded from the ROM whose planes are 0xFF there.
C16_Witness ==
    /\ last.op = "get_sprite"
    /\ m_chr_rom = ChrOnes /\ last.value = 1 /\ last.ret = 0
    /\ \A j \in 0..7, c \in 0..7 : sprite[j][c] = 3

\* The frame the last call rendered, both passes done.
Rendered == last.op = "render" /\ m_frame.passes = 2

\* The entry of the colour table with index VRAM[0x3F00 + G*4 + p].
PaletteColor(vram, G, p) == [table |-> MemRead(vram, 16128 + G * 4 + p), junk |-> 0]

\* The 2-bit field of byte b at bit offset off.
Field2(b, off) == (b \div Pow2(off)) % 4

\* C12: in the sprite pass, for every OAM entry that is drawn and every pixel
\* (x, y) of its tile inside the grid: if the flip-resolved colour index is
\* 0, the pixel at (Y + y, X + x) is after this sprite what the background
\* pass and the earlier sprites left there; otherwise it is the sprite's
\* colour.
C12_SpriteTransparency ==
    Rendered =>
        \A i \in drawn, x \in 0..7, y \in 0..7 :
            LET Y == MemRead(m_frame.oam, 4 * i)
                tile == MemRead(m_frame.oam, 4 * i + 1)
                attr == MemRead(m_frame.oam, 4 * i + 2)
                X == MemRead(m_frame.oam, 4 * i + 3)
                spr == get_sprite(m_chr_rom, tile, (m_frame.ctrl \div 8) % 2 = 1)
                pc == spr[IF attr \div 128 = 1 THEN 7 - y ELSE y]
                         [IF (attr \div 64) % 2 = 1 THEN 7 - x ELSE x]
            IN  (Y + y < 240 /\ X + x < 256) =>
                    FrameAfter(m_frame, m_chr_rom, i + 1, Y + y, X + x) =
                        IF pc = 0
                        THEN FrameAfter(m_frame, m_chr_rom, i, Y + y, X + x)
                        ELSE PaletteColor(m_frame.vram, 4 + (attr % 4), pc)

\* The five sprites of page 2 drawn: at (18, 22) the second one, flipped
\* horizontally, is transparent and the pixel keeps the first one's colour.
C12_Witness ==
    /\ Rendered /\ drawn = {0, 1, 2, 3, 4}
    /\ m_chr_rom = ChrOnes /\ m_frame.ctrl = 0
    /\ SpriteAt(m_frame, m_chr_rom, 1, 18, 22) = NoWrite
    /\ SpriteAt(m_frame, m_chr_rom, 1, 18, 21) # NoWrite
    /\ FramePixel(m_frame, m_chr_rom, 18, 22) = [table |-> 38, junk |-> 0]

\* C13: in the background pass, for every tile cell and every pixel of its
\* tile, with palette group G and pixel colour index p (p = 0 too), the
\* colour stored in the frame buffer is the colour-table entry whose index is
\* VRAM[0x3F00 + G*4 + p].
C13_BackgroundPalette ==
    last.op = "render" =>
        \A sy \in 0..29, sx \in 0..31, y \in 0..7, x \in 0..7 :
            LET a == render_nametable(m_frame.ctrl, m_frame.vram, sx, sy)
                p == get_sprite(m_chr_rom, a.sprite_no, a.table_no)[y][x]
            IN  BgPixel(m_frame, m_chr_rom, sy * 8 + y, sx * 8 + x) =
                    PaletteColor(m_frame.vram, a.palette_no, p)

\* C14: a render with the sprite-size bit of the control register set throws
\* instead of doing the sprite pass; with the bit clear it passes to
\* add_sprite exactly the OAM entries, of all 64, whose Y byte is not 255.
C14_SpriteSize ==
    [][ last'.op = "render" =>
            IF (m_ppuctrl \div 32) % 2 = 1
            THEN raised' /\ m_frame'.passes = 1 /\ drawn' = {}
            ELSE /\ ~raised' /\ m_frame'.passes = 2
                 /\ drawn' = {i \in 0..63 : MemRead(m_ppuoam, 4 * i) # 255} ]_vars

\* A render in 8x16 mode that threw with five visible entries in OAM.
C14_Witness ==
    /\ last.op = "render" /\ raised
    /\ m_ppuctrl = 32
    /\ MemRead(m_ppuoam, 0) = 16 /\ MemRead(m_ppuoam, 20) = 255
    /\ m_frame.passes = 1 /\ drawn = {}

\* C17: in the background pass, for every cell (x, y) with nametable base
\* B = 0x2000 + 0x400 * (control & 3), the tile index is VRAM[B + x + 32*y]
\* and the palette group is the 2-bit field of VRAM[B + 0x3C0 + (y div 4)*8
\* + (x div 4)] at bit offset 0 (top left), 2 (top right), 4 (bottom left) or
\* 6 (bottom right), bottom being y mod 4 >= 2 and right x mod 4 >= 2; the
\* group is in 0..3.
C17_NametableLookup ==
    last.op = "render" =>
        \A y \in 0..29, x \in 0..31 :
            LET B == 8192 + 1024 * (m_frame.ctrl % 4)
                off == (IF y % 4 >= 2 THEN 4 ELSE 0) + (IF x % 4 >= 2 THEN 2 ELSE 0)
                a == render_nametable(m_frame.ctrl, m_frame.vram, x, y)
            IN  /\ a.sprite_no = MemRead(m_frame.vram, B + x + 32 * y)
                /\ a.palette_no =
                      Field2(MemRead(m_frame.vram, B + 960 + (y \div 4) * 8 + x \div 4), off)
                /\ a.palette_no \in 0..3

\* A frame of nametable 0 rendered after 0b11100100 was stored in its first
\* attribute byte: the four quadrants of the first block have the groups 0,
\* 1, 2 and 3.
C17_Witness ==
    /\ last.op = "render" /\ m_frame.ctrl = 0
    /\ MemRead(m_frame.vram, 9152) = 228
    /\ render_nametable(m_frame.ctrl, m_frame.vram, 1, 1).palette_no = 0
    /\ render_nametable(m_frame.ctrl, m_frame.vram, 2, 1).palette_no = 1
    /\ render_nametable(m_frame.ctrl, m_frame.vram, 1, 2).palette_no = 2
    /\ render_nametable(m_frame.ctrl, m_frame.vram, 3, 3).palette_no = 3

\* C20: with 8x8 sprites, every frame-buffer store of render targets a pixel
\* of the 256 x 240 grid: row sprite_y + y in 0..239 and column sprite_x + x
\* in 0..255, in the background pass and in the sprite pass.
C20_InsideGrid ==
    Rendered =>
        /\ \A sy \in 0..29, sx \in 0..31, y \in 0..7, x \in 0..7 :
                sy * 8 + y \in 0..239 /\ sx * 8 + x \in 0..255
        /\ \A i \in drawn, x \in 0..7, y \in 0..7 :
                LET a == render_oam(m_frame.ctrl, m_frame.oam, i)
                IN  add_sprite(m_frame.vram, m_chr_rom, a, x, y, 0) # NoWrite
                        => /\ a.sprite_y + y \in 0..239
                           /\ a.sprite_x + x \in 0..255

\* C18: the interrupt is asserted only inside a tick call that wraps the tick
\* counter to 0, once, and only with the NMI-enable bit set at that tick: a
\* wrap with the bit clear resets the counter without an interrupt, and no
\* register read or write (setting the bit included) and no render asserts it.
C18_NmiOnlyAtWrap ==
    [][ /\ cpu_nmi' # cpu_nmi
            => /\ last'.op = "tick"
               /\ m_ntick' = 0
               /\ (m_ppuctrl \div 128) % 2 = 1
               /\ cpu_nmi' = cpu_nmi + 1
        /\ (last'.op = "tick" /\ m_ntick' <= m_ntick /\ (m_ppuctrl \div 128) % 2 = 0)
            => m_ntick' = 0 /\ cpu_nmi' = cpu_nmi
        /\ last'.op # "tick" => cpu_nmi' = cpu_nmi ]_vars

\* The counter wrapped with the bit clear, the bit was set by the next call,
\* and a further tick was made: no interrupt was asserted.
C18_Witness ==
    /\ nticks = 89342 /\ m_ntick = 1
    /\ m_ppuctrl = 128 /\ nops = 1
    /\ last.op = "tick"
    /\ cpu_nmi = 0

\* C19: VRAM changes only in a data-register write and OAM only in an OAM
\* DMA write; a write to the mask, scroll, OAM-address or OAM-data register
\* changes no state of the chip; a control-register write changes the control
\* byte only; tick and render change neither VRAM, OAM, the cursor, the
\* toggle nor the read buffer.
C19_WhoChangesWhat ==
    [][ /\ m_vram' # m_vram => IsSet(last', KEY_PPUDATA)
        /\ m_ppuoam' # m_ppuoam => IsSet(last', KEY_OAMDMA)
        /\ (last'.op = "set" /\ last'.key \in {KEY_PPUMASK, KEY_PPUSCROLL,
                                               KEY_OAMADDR, KEY_OAMDATA})
            => UNCHANGED <<chip, video>>
        /\ IsSet(last', KEY_PPUCTRL)
            => /\ m_ppuctrl' = last'.value
               /\ UNCHANGED <<m_ppuaddr, m_ppu_reg_w, m_vram, m_ppudata_buffer,
                              m_ppuoam, m_controller_strobe, m_controller_read_no,
                              m_kb_state, m_ntick, video>>
        /\ last'.op \in {"tick", "render"}
            => UNCHANGED <<m_vram, m_ppuoam, m_ppuaddr, m_ppu_reg_w,
                           m_ppudata_buffer>> ]_vars

\* A nonzero scroll write made with the toggle at "expect low byte", after a
\* render and an address write.
C19_Witness ==
    /\ IsSet(last, KEY_PPUSCROLL) /\ last.value = 17
    /\ m_ppu_reg_w = 1 /\ m_ppuaddr = 63
    /\ m_frame.passes = 2
    /\ nops = 3

====
